---------------------------- MODULE Spec2Model ----------------------------
(***************************************************************************)
(* Delivery-fee / distance-estimation core of the storefront               *)
(* (src/src/hooks/useGoogleMaps.ts, hook useGoogleMaps).                    *)
(*                                                                         *)
(* Numbers.  JavaScript numbers are modelled as tagged values              *)
(* [k, v]: k = "num" carries a fixed-point integer v, the other kinds      *)
(* are NaN, +Infinity, -Infinity, null and undefined.  Unless said         *)
(* otherwise a "num" is in TENTHS: a distance of 3.9 km is Num(39), a fee  *)
(* of 60 pesos is Num(600).  All distances the hook hands to the fee       *)
(* calculator are rounded to one decimal, so tenths lose nothing.          *)
(*                                                                         *)
(* Strings.  An address is a sequence of tokens (words, "," and the        *)
(* blank " "); a regular expression \bword\b/gi is the set of model        *)
(* tokens it matches.                                                      *)
(***************************************************************************)
EXTENDS Integers, Sequences, FiniteSets, TLC

(***************************************************************************)
(* Bounds of the model                                                     *)
(***************************************************************************)
\* largest finite distance (tenths of km) handed to the fee calculator
MaxDistance == 62
\* most negative finite distance (tenths of km) handed to the fee calculator
MaxNegative == 12

(***************************************************************************)
(* JavaScript values                                                       *)
(***************************************************************************)
Num(n) == [k |-> "num", v |-> n]
NaN == [k |-> "nan", v |-> 0]
PosInf == [k |-> "inf", v |-> 0]
NegInf == [k |-> "-inf", v |-> 0]
Null == [k |-> "null", v |-> 0]
Undefined == [k |-> "undefined", v |-> 0]

\* isNaN(x): ToNumber(null) is 0, ToNumber(undefined) is NaN
isNaN(x) == x.k \in {"nan", "undefined"}

\* x - y for a finite y (null converts to 0, undefined to NaN)
Minus(x, y) ==
  CASE x.k = "num" -> Num(x.v - y)
    [] x.k = "null" -> Num(0 - y)
    [] x.k = "inf" -> PosInf
    [] x.k = "-inf" -> NegInf
    [] OTHER -> NaN

\* Math.max(0, x)
MathMax0(x) ==
  CASE x.k = "num" -> IF x.v > 0 THEN x ELSE Num(0)
    [] x.k = "inf" -> PosInf
    [] x.k = "-inf" -> Num(0)
    [] OTHER -> NaN

\* Math.floor(x) of a value in tenths, as a whole number of units
MathFloor(x) ==
  CASE x.k = "num" -> Num(x.v \div 10)
    [] OTHER -> x

\* n * y for a whole-or-infinite n and a finite y (Infinity * 0 is NaN)
Times(n, y) ==
  CASE n.k = "num" -> Num(n.v * y)
    [] n.k = "inf" -> IF y > 0 THEN PosInf ELSE IF y < 0 THEN NegInf ELSE NaN
    [] n.k = "-inf" -> IF y > 0 THEN NegInf ELSE IF y < 0 THEN PosInf ELSE NaN
    [] OTHER -> NaN

\* y + x for a finite y
Plus(y, x) ==
  CASE x.k = "num" -> Num(y + x.v)
    [] OTHER -> x

\* x <= y as JavaScript compares numbers (false as soon as one is NaN)
Leq(x, y) ==
  CASE x.k = "nan" \/ y.k = "nan" -> FALSE
    [] x.k = "-inf" \/ y.k = "inf" -> TRUE
    [] x.k = "inf" \/ y.k = "-inf" -> FALSE
    [] OTHER -> x.v <= y.v

(***************************************************************************)
(* Fee configuration: site_settings rows and the hook's deliverySettings   *)
(***************************************************************************)
SettingKeys == {"delivery_base_fee", "delivery_per_km_fee", "delivery_base_distance"}

\* parseFloat(item.value), in tenths; a missing row leaves settings[id] undefined
parseFloat(t) ==
  CASE t = "absent" -> Undefined
    [] t = "0" -> Num(0)
    [] t = "2.5" -> Num(25)
    [] t = "60" -> Num(600)
    [] t = "13" -> Num(130)
    [] t = "3" -> Num(30)
    [] OTHER -> NaN

OrDefault_nullish(x, d) == IF x.k \in {"null", "undefined"} THEN d ELSE x.v

\* x || d : d replaces the falsy values 0, NaN and undefined
OrDefault(x, d) == IF x.k = "num" /\ x.v # 0 THEN x.v ELSE d

\* useState initial value of deliverySettings
DefaultDeliverySettings == [baseFee |-> 600, perKmFee |-> 130, baseDistance |-> 30]

VARIABLES
  site_settings,         \* the store's rows: key -> text
  deliverySettings,      \* hook state: [baseFee, perKmFee, baseDistance] in tenths
  feeCall,               \* last call of calculateDeliveryFee: [called, distance, fee, settings]
  apiKey,                \* import.meta.env.VITE_GOOGLE_MAPS_API_KEY is set
  deliveryCenterCoords,  \* hook state
  loading,               \* hook state
  error,                 \* hook state: "null" or the message set by setError
  call,                  \* the operation in progress (or the last one, when done)
  geo,                   \* the geocoder function that is running and its loop position
  requests,              \* HTTP requests sent by the operation, in order
  geoReturns,            \* the geocoder invocations of the operation that have ended
  ret,                   \* what the operation returned
  booking,               \* PadalaBooking state: the distance and fee on display
  checkout,              \* Checkout state: step, address, distance, fee, area flag
  timer,                 \* Checkout: the pending debounce timeout and the address it captured
  inflight,              \* Checkout: started computations awaiting an answer, in issue order
  order,                 \* Checkout: the order handed to Messenger by handlePlaceOrder
  normCall,              \* an address and what normalising it once and twice gave
  manager,               \* DeliveryFeeManager: settings on screen, defaultSettings, save in progress
  menu,                  \* menu_items / variations / add_ons rows of one item and the update in progress
  ratings                \* restaurant_ratings rows and the submitRating calls in progress

feeVars == <<site_settings, deliverySettings, feeCall>>
uiVars == <<booking, checkout, timer, inflight, order>>
appVars == <<normCall, manager, menu, ratings>>

NoFeeCall == [called |-> FALSE, distance |-> Null, fee |-> Null, settings |-> DefaultDeliverySettings]

calculateDeliveryFee_nocheck(distance, s) ==
  Plus(s.baseFee, Times(MathFloor(MathMax0(Minus(distance, s.baseDistance))), s.perKmFee))

calculateDeliveryFee_ceil(distance, s) ==
  IF distance.k = "null" \/ isNaN(distance)
    THEN Num(s.baseFee)
    ELSE LET chargeableDistance == MathMax0(Minus(distance, s.baseDistance))
             chargeableFullKm ==
               IF chargeableDistance.k = "num"
                 THEN Num((chargeableDistance.v + 9) \div 10)
                 ELSE chargeableDistance
         IN  Plus(s.baseFee, Times(chargeableFullKm, s.perKmFee))

calculateDeliveryFee_nobase(distance, s) ==
  IF distance.k = "null" \/ isNaN(distance)
    THEN Num(s.baseFee)
    ELSE LET chargeableDistance == MathMax0(distance)
             chargeableFullKm == MathFloor(chargeableDistance)
         IN  Plus(s.baseFee, Times(chargeableFullKm, s.perKmFee))

calculateDeliveryFee_abs(distance, s) ==
  IF distance.k = "null" \/ isNaN(distance)
    THEN Num(s.baseFee)
    ELSE LET diff == Minus(distance, s.baseDistance)
             chargeableDistance ==
               IF diff.k = "num" /\ diff.v < 0 THEN Num(0 - diff.v) ELSE MathMax0(diff)
         IN  Plus(s.baseFee, Times(MathFloor(chargeableDistance), s.perKmFee))

calculateDeliveryFee(distance, s) ==
  IF distance.k = "null" \/ isNaN(distance)
    THEN Num(s.baseFee)
    ELSE LET chargeableDistance == MathMax0(Minus(distance, s.baseDistance))
             chargeableFullKm == MathFloor(chargeableDistance)
         IN  Plus(s.baseFee, Times(chargeableFullKm, s.perKmFee))

\* the mount effect: read the three rows, parse, substitute defaults
FetchDeliverySettings(outcome) ==
  /\ IF outcome = "ok"
       THEN LET settings == [id \in SettingKeys |-> parseFloat(site_settings[id])]
            IN  deliverySettings' =
                  [baseFee |-> OrDefault(settings["delivery_base_fee"], 600),
                   perKmFee |-> OrDefault(settings["delivery_per_km_fee"], 130),
                   baseDistance |-> OrDefault(settings["delivery_base_distance"], 0)]
       ELSE deliverySettings' = deliverySettings
  /\ UNCHANGED <<site_settings, feeCall>>
  /\ UNCHANGED <<apiKey, deliveryCenterCoords, loading, error, call, geo, requests, geoReturns, ret>>
  /\ UNCHANGED <<uiVars, appVars>>

CalculateDeliveryFee(distance) ==
  /\ feeCall' = [called |-> TRUE, distance |-> distance,
                 fee |-> calculateDeliveryFee(distance, deliverySettings),
                 settings |-> deliverySettings]
  /\ UNCHANGED <<site_settings, deliverySettings>>
  /\ UNCHANGED <<apiKey, deliveryCenterCoords, loading, error, call, geo, requests, geoReturns, ret>>
  /\ UNCHANGED <<uiVars, appVars>>

(***************************************************************************)
(* Addresses and their normalisation                                       *)
(***************************************************************************)
\* the addresses handed to the hook
Addresses ==
  { <<>>, <<" ">>, <<"Luneta">>, <<"brgy", "Floridablanca">>, <<" ", "pangpaga">> }

RECURSIVE TrimStart(_)
TrimStart(a) ==
  IF a # <<>> /\ Head(a) = " " THEN TrimStart(Tail(a)) ELSE a

RECURSIVE TrimEnd(_)
TrimEnd(a) ==
  IF a # <<>> /\ a[Len(a)] = " " THEN TrimEnd(SubSeq(a, 1, Len(a) - 1)) ELSE a

\* String.prototype.trim
Trim(a) == TrimEnd(TrimStart(a))

\* a.replace(/\bword\b/gi, by): matches is the set of tokens the pattern matches
Replace(a, matches, by) == [i \in 1..Len(a) |-> IF a[i] \in matches THEN by ELSE a[i]]

normalizePlusCodeAddress(address) == Trim(address)

normalizePhilippineAddress_shortAve(address) ==
  LET n0 == Trim(address)
      n1 == Replace(n0, {"pangpaga", "Pangpaga"}, "Pampanga")
      n2 == Replace(n1, {"pampanga", "PAMPANGA", "Pampanga"}, "Pampanga")
      n3 == Replace(n2, {"brgy", "Brgy"}, "Barangay")
      n4 == Replace(n3, {"bgy", "Bgy"}, "Barangay")
      n5 == Replace(n4, {"purok", "Purok"}, "Purok")
      n6 == Replace(n5, {"blk", "Blk"}, "Block")
      n7 == Replace(n6, {"st", "St"}, "Street")
      n8 == Replace(n7, {"ave", "Ave"}, "Avenue")
      n9 == Replace(n8, {"av", "Av"}, "Ave")
  IN  Replace(n9, {"floridablanca", "Floridablanca", "FLORIDABLANCA"}, "Floridablanca")

normalizePhilippineAddress(address) ==
  LET n0 == Trim(address)
      n1 == Replace(n0, {"pangpaga", "Pangpaga"}, "Pampanga")
      n2 == Replace(n1, {"pampanga", "PAMPANGA", "Pampanga"}, "Pampanga")
      n3 == Replace(n2, {"brgy", "Brgy"}, "Barangay")
      n4 == Replace(n3, {"bgy", "Bgy"}, "Barangay")
      n5 == Replace(n4, {"purok", "Purok"}, "Purok")
      n6 == Replace(n5, {"blk", "Blk"}, "Block")
      n7 == Replace(n6, {"st", "St"}, "Street")
      n8 == Replace(n7, {"ave", "Ave"}, "Avenue")
      n9 == Replace(n8, {"av", "Av"}, "Avenue")
  IN  Replace(n9, {"floridablanca", "Floridablanca", "FLORIDABLANCA"}, "Floridablanca")

\* s.includes(word)
Includes(a, word) == \E i \in 1..Len(a) : a[i] = word

Unique_keepAll(list) == list

\* [...new Set(list)]: first occurrences, in insertion order
RECURSIVE Unique(_)
Unique(list) ==
  IF list = <<>> THEN <<>>
  ELSE LET init == Unique(SubSeq(list, 1, Len(list) - 1))
           last == list[Len(list)]
       IN  IF \E i \in 1..Len(init) : init[i] = last THEN init ELSE Append(init, last)

\* uniqueVariations of geocodeAddressOSM
OSMVariations(address) ==
  LET normalizedAddress == normalizePhilippineAddress(normalizePlusCodeAddress(address))
  IN  Unique(<< normalizedAddress,
                normalizedAddress \o <<",", "Philippines">>,
                normalizedAddress \o <<",", "Pampanga", ",", "Philippines">> >>)

\* uniqueVariations of geocodeAddressGoogle
GoogleVariations(address) ==
  LET normalizedAddress == normalizePhilippineAddress(normalizePlusCodeAddress(address))
  IN  Unique(<< normalizedAddress,
                IF Includes(normalizedAddress, "Floridablanca")
                  THEN normalizedAddress
                  ELSE normalizedAddress \o <<",", "Floridablanca">>,
                IF Includes(normalizedAddress, "Pampanga")
                  THEN normalizedAddress
                  ELSE normalizedAddress \o <<",", "Pampanga">>,
                normalizedAddress \o <<",", "Floridablanca", ",", "Pampanga", ",", "Philippines">> >>)

(***************************************************************************)
(* Coordinates and distances                                               *)
(***************************************************************************)
\* a coordinate is named; "NaNCoord" is {lat: NaN, lng: NaN}, "null" is no coordinate
DELIVERY_CENTER == "Hub"
Places == {"Hub", "Near", "Manila", "Binan", "Baguio"}
Coordinates == Places \cup {"NaNCoord"}

\* R * c of the haversine formula, in metres, for the named places:
\* Hub (14.97463, 120.52821), Near (14.98, 120.54), Manila (14.5995, 120.9842),
\* Binan (14.3414, 121.0809), Baguio (16.4023, 120.5960)
StraightLineMeters(a, b) ==
  CASE a = b -> 0
    [] {a, b} = {"Hub", "Near"} -> 1400
    [] {a, b} = {"Hub", "Manila"} -> 64369
    [] {a, b} = {"Near", "Manila"} -> 63803
    [] {a, b} = {"Hub", "Binan"} -> 92157
    [] {a, b} = {"Hub", "Baguio"} -> 158915
    [] {a, b} = {"Near", "Binan"} -> 91804
    [] {a, b} = {"Near", "Baguio"} -> 158266
    [] {a, b} = {"Manila", "Binan"} -> 30530
    [] {a, b} = {"Manila", "Baguio"} -> 204732
    [] {a, b} = {"Binan", "Baguio"} -> 234984

calculateDistanceHaversine_plain(a, b) ==
  IF a \in Places /\ b \in Places THEN Num(10 * StraightLineMeters(a, b)) ELSE NaN

\* straightLineDistance * 1.2, in units of 1/10000 km (decimetres)
calculateDistanceHaversine(a, b) ==
  IF a \in Places /\ b \in Places THEN Num(12 * StraightLineMeters(a, b)) ELSE NaN

\* the delivery radius of 100 km, in decimetres
MAX_DELIVERY_RADIUS_KM == Num(1000000)

RoundDecimetres_whole(x) == IF x.k = "num" THEN Num(10 * ((x.v + 5000) \div 10000)) ELSE x

\* Math.round(distance * 10) / 10 of a distance in decimetres, in tenths of km
RoundDecimetres(x) == IF x.k = "num" THEN Num((x.v + 500) \div 1000) ELSE x

\* Math.round((metres / 1000) * 10) / 10, in tenths of km
RoundMetres(m) == Num((m + 50) \div 100)

\* Math.round(seconds / 60), in whole minutes
RoundMinutes(sec) == Num((sec + 30) \div 60)

(***************************************************************************)
(* The hook's asynchronous operations                                      *)
(***************************************************************************)
geoVars == <<apiKey, deliveryCenterCoords, loading, error, call, geo, requests, geoReturns, ret>>

vars == <<site_settings, deliverySettings, feeCall,
          apiKey, deliveryCenterCoords, loading, error, call, geo, requests, geoReturns, ret,
          booking, checkout, timer, inflight, order, normCall, manager, menu, ratings>>

\* the optional origin argument
Origins == {"undefined", "Manila"}

\* coordinates a geocoding provider may answer with
GeoResults == {"Hub", "Near"}

\* route.distance (metres) and route.duration (seconds) a routing answer may carry
RouteMeters == {0, 1640, 1660}
RouteSeconds == {89, 90}

\* what a request to the Google geocoding API may end in
GoogleOutcomes == {"reject", "badjson", "ok_results", "zero_results", "denied", "ok_malformed"}
\* what a request to Nominatim may end in
OSMOutcomes == {"reject", "not_ok", "badjson", "results", "empty", "not_array", "null_element", "no_lat"}
\* what a request to OSRM may end in
OSRMOutcomes == {"reject", "not_ok", "badjson", "code_not_ok", "no_routes", "ok", "ok_no_distance", "null_route"}

NoGeo == [provider |-> "none", variations |-> <<>>, idx |-> 0]
NoRet ==
  [state |-> "none", distance |-> Undefined, duration |-> Undefined,
   pickupCoordinates |-> "undefined", dropoffCoordinates |-> "undefined",
   within |-> FALSE, error |-> "undefined"]
NullRet == [NoRet EXCEPT !.state = "null"]
PendingRet == [NoRet EXCEPT !.state = "pending"]

\* no address of the Checkout tags a value
NoAddress == <<"(none)">>

\* useState initial values of PadalaBooking and Checkout
\* feeFor is the pair of texts the fee on display was computed for, sent the texts
\* of the computation started last and whether their fields' timers were pending
NoPair == <<NoAddress, NoAddress>>
NoBooking ==
  [shown |-> FALSE, title |-> "none", serviceType |-> "none", distance |-> Null,
   priced |-> Null, deliveryFee |-> Num(600),
   pickup_address |-> <<>>, delivery_address |-> <<>>,
   pickupTimer |-> FALSE, deliveryTimer |-> FALSE,
   debouncedPickupAddress |-> <<>>, debouncedDeliveryAddress |-> <<>>,
   calls |-> <<>>, sent |-> [started |-> FALSE, pickup |-> <<>>, delivery |-> <<>>, pickupPending |-> FALSE, deliveryPending |-> FALSE], feeFor |-> NoPair, submitted |-> [done |-> FALSE, pickup_address |-> <<>>, delivery_address |-> <<>>, delivery_fee |-> Null, distance_km |-> Null, feeFor |-> NoPair]]
\* areaFor is the address for which the area check gave the value of isWithinArea
\* (NoAddress when the value is not an answer of the area check), distanceFor is
\* the text whose distance and fee are on display
CheckoutIdle ==
  [step |-> "details", address |-> <<>>, isWithinArea |-> "null", areaCheckError |-> "null",
   distance |-> Null, deliveryFee |-> Num(600),
   areaFor |-> NoAddress, distanceFor |-> NoAddress]
NoTimer == [set |-> FALSE, address |-> <<>>]
NoOrder ==
  [placed |-> FALSE, address |-> <<>>, deliveryFee |-> Num(600), isWithinArea |-> "null",
   areaFor |-> NoAddress, distanceFor |-> NoAddress]

\* the screens freshly mounted
ScreensIdle ==
  /\ booking = NoBooking
  /\ checkout = CheckoutIdle
  /\ timer = NoTimer
  /\ inflight = <<>>
  /\ order = NoOrder

\* defaultSettings of DeliveryFeeManager, in tenths
ManagerDefaults ==
  [l \in {"food", "padala", "pabili"} |->
     [base_fee |-> Num(600), per_km_fee |-> Num(130), base_distance |-> Num(30)]]

NoNormCall == [called |-> FALSE, address |-> <<>>, once |-> <<>>, twice |-> <<>>]
ManagerIdle ==
  [settings |-> ManagerDefaults, defaultSettings |-> ManagerDefaults, message |-> "null",
   saving |-> "null", next |-> 0, updates |-> <<>>, before |-> <<>>, saved |-> "null",
   clearPending |-> FALSE]
NoUpdates ==
  [name |-> "undefined", variations |-> [k |-> "undefined", v |-> <<>>],
   addOns |-> [k |-> "undefined", v |-> <<>>]]
NoMenu ==
  [variations |-> {}, addOns |-> {}, name |-> "none", stage |-> "idle",
   updates |-> NoUpdates, before |-> [variations |-> {}, addOns |-> {}],
   thrown |-> FALSE]
NoRatings ==
  [unique |-> FALSE, rows |-> <<>>, calls |-> <<>>, hasRated |-> "null",
   isSubmitting |-> FALSE, error |-> "null"]

\* the other screens and tables before anything has run
AdminIdle ==
  /\ normCall = NoNormCall
  /\ manager = ManagerIdle
  /\ menu = NoMenu
  /\ ratings = NoRatings

\* the hook after construction, no operation started
HookIdle ==
  /\ deliveryCenterCoords = DELIVERY_CENTER
  /\ loading = FALSE
  /\ error = "null"
  /\ call = [fn |-> "idle", stage |-> "idle", addrs |-> <<>>, which |-> 0, coords |-> <<>>, startCoords |-> "null"]
  /\ geo = NoGeo
  /\ requests = <<>>
  /\ geoReturns = <<>>
  /\ ret = NoRet

\* every content of the settings table, the hook freshly mounted
InitFee ==
  /\ site_settings \in [SettingKeys -> {"absent", "0", "abc", "2.5", "60"}]
  /\ deliverySettings = DefaultDeliverySettings
  /\ feeCall = NoFeeCall
  /\ apiKey = FALSE
  /\ HookIdle
  /\ ScreensIdle
  /\ AdminIdle

\* with and without an API key, the hook freshly mounted
InitGeo ==
  /\ apiKey \in BOOLEAN
  /\ site_settings = [id \in SettingKeys |-> "absent"]
  /\ deliverySettings = DefaultDeliverySettings
  /\ feeCall = NoFeeCall
  /\ HookIdle
  /\ ScreensIdle
  /\ AdminIdle

Request(provider, which, query, outcome, coord) ==
  [provider |-> provider, which |-> which, query |-> query, outcome |-> outcome, coord |-> coord]
GeoReturn(fn, which, value, thrown) ==
  [fn |-> fn, which |-> which, value |-> value, thrown |-> thrown]

\* the catch block of geocodeAddressOSM: log and return null
geocodeAddressOSM_rethrow == [value |-> "null", thrown |-> TRUE]
geocodeAddressOSM_catch == [value |-> "null", thrown |-> FALSE]

\* the error texts isWithinDeliveryArea returns
AreaErrNotFound == "Could not find the address location"

isWithinDeliveryArea_noError(startCoords, coords) ==
  IF coords = "null"
    THEN [NoRet EXCEPT !.state = "area", !.within = FALSE]
    ELSE LET distanceFromCenter == calculateDistanceHaversine(startCoords, coords)
         IN  [NoRet EXCEPT !.state = "area",
                           !.within = Leq(distanceFromCenter, MAX_DELIVERY_RADIUS_KM),
                           !.distance = RoundDecimetres(distanceFromCenter)]

\* what isWithinDeliveryArea returns once the geocoders have answered coords
isWithinDeliveryArea(startCoords, coords) ==
  IF coords = "null"
    THEN [NoRet EXCEPT !.state = "area", !.within = FALSE, !.error = AreaErrNotFound]
    ELSE LET distanceFromCenter == calculateDistanceHaversine(startCoords, coords)
         IN  [NoRet EXCEPT !.state = "area",
                           !.within = Leq(distanceFromCenter, MAX_DELIVERY_RADIUS_KM),
                           !.distance = RoundDecimetres(distanceFromCenter)]

\* the catch block of calculateDistance / calculateDistanceBetweenAddresses, and
\* the one of isWithinDeliveryArea, which sets no hook state
CallCatch(reqs, rets) ==
  /\ IF call.fn = "isWithinDeliveryArea"
       THEN /\ ret' = [NoRet EXCEPT !.state = "area", !.within = FALSE, !.error = "Failed to check delivery area"]
            /\ UNCHANGED <<error, loading>>
       ELSE /\ error' = "Failed to calculate distance"
            /\ loading' = FALSE
            /\ ret' = NullRet
  /\ call' = [call EXCEPT !.stage = "done"]
  /\ geo' = NoGeo
  /\ requests' = reqs
  /\ geoReturns' = rets

\* the operation calls geocodeAddressGoogle(addrs[k]) and, on null, geocodeAddressOSM:
\* without an API key the first returns null before any request
EnterGeocode(c, k, reqs, rets) ==
  /\ call' = [c EXCEPT !.which = k, !.stage = "geocode"]
  /\ requests' = reqs
  /\ IF apiKey
       THEN /\ geo' = [provider |-> "google", variations |-> GoogleVariations(c.addrs[k]), idx |-> 1]
            /\ geoReturns' = rets
       ELSE /\ geo' = [provider |-> "osm", variations |-> OSMVariations(c.addrs[k]), idx |-> 1]
            /\ geoReturns' = Append(rets, GeoReturn("google", k, "null", FALSE))

\* the geocoding of addrs[call.which] has ended in coordinate c (or "null")
Resolved(c, reqs, rets) ==
  LET coords == Append(call.coords, c)
      next == [call EXCEPT !.coords = coords]
  IN  IF call.fn = "isWithinDeliveryArea"
        THEN /\ ret' = isWithinDeliveryArea(call.startCoords, c)
             /\ call' = [next EXCEPT !.stage = "done"]
             /\ geo' = NoGeo
             /\ requests' = reqs
             /\ geoReturns' = rets
             /\ UNCHANGED <<loading, error>>
        ELSE IF call.which < Len(call.addrs)
        THEN /\ EnterGeocode(next, call.which + 1, reqs, rets)
             /\ UNCHANGED <<loading, error, ret>>
        ELSE IF \A i \in 1..Len(coords) : coords[i] # "null"
          THEN /\ call' = [next EXCEPT !.stage = "route"]
               /\ geo' = NoGeo
               /\ requests' = reqs
               /\ geoReturns' = rets
               /\ UNCHANGED <<loading, error, ret>>
          ELSE /\ error' = (IF call.fn = "calculateDistance" THEN "Could not find the address" ELSE "Could not find pickup or drop-off address")
               /\ loading' = FALSE
               /\ ret' = NullRet
               /\ call' = [next EXCEPT !.stage = "done"]
               /\ geo' = NoGeo
               /\ requests' = reqs
               /\ geoReturns' = rets

GoogleReturns_alwaysOSM(r, reqs) ==
  /\ geo' = [provider |-> "osm", variations |-> OSMVariations(call.addrs[call.which]), idx |-> 1]
  /\ requests' = reqs
  /\ geoReturns' = Append(geoReturns, GeoReturn("google", call.which, r.value, r.thrown))
  /\ UNCHANGED <<call, loading, error, ret>>

\* geocodeAddressGoogle has ended
GoogleReturns(r, reqs) ==
  LET rets == Append(geoReturns, GeoReturn("google", call.which, r.value, r.thrown))
  IN  IF r.thrown
        THEN CallCatch(reqs, rets)
        ELSE IF r.value # "null"
          THEN Resolved(r.value, reqs, rets)
          ELSE /\ geo' = [provider |-> "osm", variations |-> OSMVariations(call.addrs[call.which]),
                          idx |-> 1]
               /\ requests' = reqs
               /\ geoReturns' = rets
               /\ UNCHANGED <<call, loading, error, ret>>

\* geocodeAddressOSM has ended
OSMReturns(r, reqs) ==
  LET rets == Append(geoReturns, GeoReturn("osm", call.which, r.value, r.thrown))
  IN  IF r.thrown THEN CallCatch(reqs, rets) ELSE Resolved(r.value, reqs, rets)

StartCalculateDistance(destinationAddress, origin) ==
  /\ call.stage \in {"idle", "done"}
  /\ loading' = TRUE
  /\ error' = "null"
  /\ ret' = PendingRet
  /\ EnterGeocode([fn |-> "calculateDistance", stage |-> "geocode",
                   addrs |-> <<destinationAddress>>, which |-> 1, coords |-> <<>>,
                   startCoords |-> IF origin = "undefined" THEN deliveryCenterCoords ELSE origin],
                  1, <<>>, <<>>)
  /\ UNCHANGED <<apiKey, deliveryCenterCoords, feeVars, uiVars, appVars>>

StartCalculateDistanceBetweenAddresses(pickupAddress, dropoffAddress) ==
  /\ call.stage \in {"idle", "done"}
  /\ loading' = TRUE
  /\ error' = "null"
  /\ ret' = PendingRet
  /\ EnterGeocode([fn |-> "calculateDistanceBetweenAddresses", stage |-> "geocode",
                   addrs |-> <<pickupAddress, dropoffAddress>>, which |-> 1, coords |-> <<>>,
                   startCoords |-> "null"],
                  1, <<>>, <<>>)
  /\ UNCHANGED <<apiKey, deliveryCenterCoords, feeVars, uiVars, appVars>>

\* isWithinDeliveryArea(address, origin): origin || deliveryCenterCoords, then the
\* geocoders; loading and error are not touched
StartIsWithinDeliveryArea(address, origin) ==
  /\ call.stage \in {"idle", "done"}
  /\ ret' = PendingRet
  /\ EnterGeocode([fn |-> "isWithinDeliveryArea", stage |-> "geocode",
                   addrs |-> <<address>>, which |-> 1, coords |-> <<>>,
                   startCoords |-> IF origin = "undefined" THEN deliveryCenterCoords ELSE origin],
                  1, <<>>, <<>>)
  /\ UNCHANGED <<loading, error, apiKey, deliveryCenterCoords, feeVars, uiVars, appVars>>

\* one turn of the loop of geocodeAddressGoogle: the request and what follows its answer
GoogleFetch(outcome, coord) ==
  /\ call.stage = "geocode"
  /\ geo.provider = "google"
  /\ LET query == geo.variations[geo.idx]
         class == CASE outcome \in {"reject", "badjson", "ok_malformed"} -> "exception"
                    [] outcome = "ok_results" -> "result"
                    [] OTHER -> "noresult"
         reqs == Append(requests,
                        Request("google", call.which, query, class,
                                IF class = "result" THEN coord ELSE "null"))
     IN  CASE class = "exception" -> GoogleReturns([value |-> "null", thrown |-> FALSE], reqs)
           [] class = "result" -> GoogleReturns([value |-> coord, thrown |-> FALSE], reqs)
           [] OTHER ->
                IF geo.idx < Len(geo.variations)
                  THEN /\ geo' = [geo EXCEPT !.idx = geo.idx + 1]
                       /\ requests' = reqs
                       /\ UNCHANGED <<call, loading, error, ret, geoReturns>>
                  ELSE GoogleReturns([value |-> "null", thrown |-> FALSE], reqs)
  /\ UNCHANGED <<apiKey, deliveryCenterCoords, feeVars, uiVars, appVars>>

\* one turn of the loop of geocodeAddressOSM
OSMFetch(outcome, coord) ==
  /\ call.stage = "geocode"
  /\ geo.provider = "osm"
  /\ LET query == geo.variations[geo.idx]
         class == CASE outcome \in {"reject", "badjson", "null_element"} -> "exception"
                    [] outcome \in {"results", "no_lat"} -> "result"
                    [] OTHER -> "noresult"
         value == IF outcome = "no_lat" THEN "NaNCoord" ELSE coord
         reqs == Append(requests,
                        Request("osm", call.which, query, class,
                                IF class = "result" THEN value ELSE "null"))
     IN  CASE class = "exception" -> OSMReturns(geocodeAddressOSM_catch, reqs)
           [] class = "result" -> OSMReturns([value |-> value, thrown |-> FALSE], reqs)
           [] OTHER ->
                IF geo.idx < Len(geo.variations)
                  THEN /\ geo' = [geo EXCEPT !.idx = geo.idx + 1]
                       /\ requests' = reqs
                       /\ UNCHANGED <<call, loading, error, ret, geoReturns>>
                  ELSE OSMReturns([value |-> "null", thrown |-> FALSE], reqs)
  /\ UNCHANGED <<apiKey, deliveryCenterCoords, feeVars, uiVars, appVars>>

\* what calculateDistanceOSRM returns for an answer of the routing service
calculateDistanceOSRM_throws(outcome, metres, seconds) ==
  CASE outcome = "ok" ->
         [thrown |-> FALSE, isNull |-> FALSE, distance |-> RoundMetres(metres),
          duration |-> RoundMinutes(seconds)]
    [] outcome = "ok_no_distance" ->
         [thrown |-> FALSE, isNull |-> FALSE, distance |-> NaN, duration |-> RoundMinutes(seconds)]
    [] outcome \in {"reject", "badjson", "null_route"} ->
         [thrown |-> TRUE, isNull |-> TRUE, distance |-> Undefined, duration |-> Undefined]
    [] OTHER ->
         [thrown |-> FALSE, isNull |-> TRUE, distance |-> Undefined, duration |-> Undefined]

calculateDistanceOSRM(outcome, metres, seconds) ==
  CASE outcome = "ok" ->
         [thrown |-> FALSE, isNull |-> FALSE, distance |-> RoundMetres(metres),
          duration |-> RoundMinutes(seconds)]
    [] outcome = "ok_no_distance" ->
         [thrown |-> FALSE, isNull |-> FALSE, distance |-> NaN, duration |-> RoundMinutes(seconds)]
    [] OTHER ->
         [thrown |-> FALSE, isNull |-> TRUE, distance |-> Undefined, duration |-> Undefined]

\* origin and destination of the routing request
RouteEnds(c) ==
  IF c.fn = "calculateDistanceBetweenAddresses"
    THEN <<c.coords[1], c.coords[2]>>
    ELSE <<c.startCoords, c.coords[1]>>

\* the request to OSRM, its answer, and the return of the operation
OSRMFetch(outcome, metres, seconds) ==
  /\ call.stage = "route"
  /\ LET ends == RouteEnds(call)
         reqs == Append(requests, Request("osrm", 0, ends, outcome, "null"))
         osrmResult == calculateDistanceOSRM(outcome, metres, seconds)
         coordsOf(r) ==
           IF call.fn = "calculateDistanceBetweenAddresses"
             THEN [r EXCEPT !.pickupCoordinates = ends[1], !.dropoffCoordinates = ends[2]]
             ELSE r
     IN  IF osrmResult.thrown
           THEN CallCatch(reqs, geoReturns)
           ELSE /\ ret' = IF ~osrmResult.isNull
                            THEN coordsOf([NoRet EXCEPT !.state = "result",
                                                        !.distance = osrmResult.distance,
                                                        !.duration = osrmResult.duration])
                            ELSE coordsOf([NoRet EXCEPT
                                   !.state = "result",
                                   !.distance =
                                     RoundDecimetres(calculateDistanceHaversine(ends[1], ends[2]))])
                /\ loading' = FALSE
                /\ call' = [call EXCEPT !.stage = "done"]
                /\ requests' = reqs
                /\ UNCHANGED <<error, geo, geoReturns>>
  /\ UNCHANGED <<apiKey, deliveryCenterCoords, feeVars, uiVars, appVars>>

(***************************************************************************)
(* Specifications                                                          *)
(***************************************************************************)
\* the fee calculator under every loaded configuration
NextFee ==
  \/ \E outcome \in {"ok", "error"} : FetchDeliverySettings(outcome)
  \/ \E distance \in {Num(n) : n \in (0 - MaxNegative)..MaxDistance} \cup {Null, Undefined, NaN, PosInf, NegInf} : CalculateDeliveryFee(distance)

SpecFee == InitFee /\ [][NextFee]_vars

\* geocoding and distance estimation under every answer of the providers
NextGeo ==
  \/ \E a \in Addresses, o \in Origins : StartCalculateDistance(a, o)
  \/ \E p \in { <<" ">>, <<"Luneta">> }, d \in { <<"Luneta">>, <<"brgy", "Floridablanca">> } :
       StartCalculateDistanceBetweenAddresses(p, d)
  \/ \E outcome \in GoogleOutcomes :
       \E c \in (IF outcome = "ok_results" THEN GeoResults ELSE {"null"}) :
         GoogleFetch(outcome, c)
  \/ \E outcome \in OSMOutcomes :
       \E c \in (IF outcome = "results" THEN GeoResults ELSE {"null"}) :
         OSMFetch(outcome, c)
  \/ \E outcome \in OSRMOutcomes :
       \E m \in (IF outcome = "ok" THEN RouteMeters ELSE {0}) :
         \E sec \in (IF outcome \in {"ok", "ok_no_distance"} THEN RouteSeconds ELSE {0}) :
           OSRMFetch(outcome, m, sec)

SpecGeo == InitGeo /\ [][NextGeo]_vars

\* the address texts Checkout hands to the area check (never blank there)
CheckoutAddresses == { <<"Luneta">>, <<"brgy", "Floridablanca">> }

\* coordinates the geocoders may answer with during an area check
AreaResults == {"Near", "Binan", "Baguio"}

\* the delivery-area check under every answer of the geocoders
NextArea ==
  \/ \E a \in CheckoutAddresses, o \in Origins : StartIsWithinDeliveryArea(a, o)
  \/ \E outcome \in GoogleOutcomes :
       \E c \in (IF outcome = "ok_results" THEN AreaResults ELSE {"null"}) :
         GoogleFetch(outcome, c)
  \/ \E outcome \in OSMOutcomes :
       \E c \in (IF outcome = "results" THEN AreaResults ELSE {"null"}) :
         OSMFetch(outcome, c)

SpecArea == InitGeo /\ [][NextArea]_vars

\* the effect run on first load: geocodeDeliveryCenter() geocodes
\* DELIVERY_CENTER.address (Google first, then OpenStreetMap) and stores the
\* coordinates it gets
GeocodeDeliveryCenter(coords) ==
  /\ deliveryCenterCoords = DELIVERY_CENTER
  /\ coords # "null"
  /\ deliveryCenterCoords' = coords
  /\ UNCHANGED <<apiKey, loading, error, call, geo, requests, geoReturns, ret,
                 feeVars, uiVars, appVars>>

\* area checks with the delivery center as reference, while or after the delivery
\* center is geocoded
NextHub ==
  \/ \E c \in {"null", "Hub", "Near"} : GeocodeDeliveryCenter(c)
  \/ \E a \in CheckoutAddresses : StartIsWithinDeliveryArea(a, "undefined")
  \/ \E outcome \in GoogleOutcomes :
       \E c \in (IF outcome = "ok_results" THEN AreaResults ELSE {"null"}) :
         GoogleFetch(outcome, c)
  \/ \E outcome \in OSMOutcomes :
       \E c \in (IF outcome = "results" THEN AreaResults ELSE {"null"}) :
         OSMFetch(outcome, c)

SpecHub == InitGeo /\ [][NextHub]_vars

\* Checkout prices the distance it was given: calculateDeliveryFee(result.distance)
QuoteDeliveryFee ==
  /\ call.fn = "calculateDistance"
  /\ call.stage = "done"
  /\ ret.state = "result"
  /\ CalculateDeliveryFee(ret.distance)

\* no API key, stored rows that are missing or hold 60
InitQuote ==
  /\ apiKey = FALSE
  /\ site_settings \in [SettingKeys -> {"absent", "60"}]
  /\ deliverySettings = DefaultDeliverySettings
  /\ feeCall = NoFeeCall
  /\ HookIdle
  /\ ScreensIdle
  /\ AdminIdle

\* distance estimation from the hub followed by the fee calculator
NextQuote ==
  \/ \E outcome \in {"ok", "error"} : FetchDeliverySettings(outcome)
  \/ \E a \in CheckoutAddresses : StartCalculateDistance(a, "undefined")
  \/ \E outcome \in OSMOutcomes :
       \E c \in (IF outcome = "results" THEN GeoResults ELSE {"null"}) :
         OSMFetch(outcome, c)
  \/ \E outcome \in OSRMOutcomes :
       \E m \in (IF outcome = "ok" THEN RouteMeters ELSE {0}) :
         \E sec \in (IF outcome \in {"ok", "ok_no_distance"} THEN RouteSeconds ELSE {0}) :
           OSRMFetch(outcome, m, sec)
  \/ QuoteDeliveryFee

SpecQuote == InitQuote /\ [][NextQuote]_vars

(***************************************************************************)
(* PadalaBooking: the fee of a parcel or errand booking                    *)
(***************************************************************************)
\* the rows DeliveryFeeManager keeps for each service line: base fee, per-km fee,
\* base distance
ServiceLineKeys ==
  [delivery |-> <<"delivery_base_fee", "delivery_per_km_fee", "delivery_base_distance">>,
   padala |-> <<"padala_base_fee", "padala_per_km_fee", "padala_base_distance">>,
   pabili |-> <<"pabili_base_fee", "pabili_per_km_fee", "pabili_base_distance">>]
ServiceLines == {"delivery", "padala", "pabili"}
AllSettingKeys == UNION { {ServiceLineKeys[l][i] : i \in 1..3} : l \in ServiceLines }

\* the numbers stored for a service line
StoredConfig(line) ==
  [baseFee |-> parseFloat(site_settings[ServiceLineKeys[line][1]]),
   perKmFee |-> parseFloat(site_settings[ServiceLineKeys[line][2]]),
   baseDistance |-> parseFloat(site_settings[ServiceLineKeys[line][3]])]

\* calculateFee after the distance has been awaited: the fee is asked from the
\* hook with the service type as a second argument, which the hook's
\* calculateDeliveryFee(distance) does not take
BookingFeeUpdate(b, title, result) ==
  LET serviceType == IF title = "Pabili" THEN "pabili" ELSE "padala"
  IN  IF result.state = "result" /\ ~isNaN(result.distance)
        THEN [b EXCEPT !.shown = TRUE, !.title = title, !.serviceType = serviceType,
                       !.distance = result.distance, !.priced = result.distance,
                       !.deliveryFee = calculateDeliveryFee(result.distance, deliverySettings)]
        ELSE [b EXCEPT !.shown = TRUE, !.title = title,
                       !.serviceType = serviceType, !.priced = Null,
                       !.deliveryFee = calculateDeliveryFee(Null, deliverySettings)]

BookingCalculateFee(title, result) ==
  /\ booking' = BookingFeeUpdate(booking, title, result)
  /\ UNCHANGED <<appVars, feeVars, geoVars, checkout, timer, inflight, order>>

\* every combination of saved and unsaved service lines, the hook freshly mounted
InitBooking ==
  /\ site_settings \in
       { f \in [AllSettingKeys -> {"absent", "60", "2.5"}] :
           \A l \in ServiceLines :
             <<f[ServiceLineKeys[l][1]], f[ServiceLineKeys[l][2]], f[ServiceLineKeys[l][3]]>>
               \in { <<"absent", "absent", "absent">>, <<"60", "2.5", "2.5">> } }
  /\ deliverySettings = DefaultDeliverySettings
  /\ feeCall = NoFeeCall
  /\ apiKey = FALSE
  /\ HookIdle
  /\ ScreensIdle
  /\ AdminIdle

NextBooking ==
  \/ \E outcome \in {"ok", "error"} : FetchDeliverySettings(outcome)
  \/ \E title \in {"Padala", "Pabili"}, result \in {NullRet} \cup { [NoRet EXCEPT !.state = "result", !.distance = dist] : dist \in {Num(17), Num(50), NaN} } :
       BookingCalculateFee(title, result)

SpecBooking == InitBooking /\ [][NextBooking]_vars

(***************************************************************************)
(* DeliveryFeeManager: loading, editing and saving the fee settings        *)
(***************************************************************************)
Services == {"food", "padala", "pabili"}
Fields == <<"base_fee", "per_km_fee", "base_distance">>

\* the id of the site_settings row of a service's field
SettingId(service, i) == ServiceLineKeys[[food |-> "delivery", padala |-> "padala", pabili |-> "pabili"][service]][i]

\* Number.prototype.toString of the values the form can hold
NumberToString(x) ==
  CASE x = Num(600) -> "60"
    [] x = Num(130) -> "13"
    [] x = Num(30) -> "3"
    [] x = Num(25) -> "2.5"
    [] x = Num(0) -> "0"
    [] OTHER -> "NaN"

\* the objects newSettings.food, .padala and .pabili after the forEach over the
\* rows: { ...defaultSettings } copies the three references, so the assignments
\* write into the objects of the module-level defaultSettings
LoadedInto(objects) ==
  [s \in Services |->
     [f \in {"base_fee", "per_km_fee", "base_distance"} |->
        LET i == CHOOSE k \in 1..3 : Fields[k] = f
            text == site_settings[SettingId(s, i)]
        IN  IF text = "absent" THEN objects[s][f] ELSE parseFloat(text)]]

\* fetchSettings(), on mount and on Refresh, at the answer of the select
FetchSettings(outcome) ==
  /\ IF outcome = "ok"
       THEN LET newSettings == LoadedInto(manager.defaultSettings)
            IN  manager' = [manager EXCEPT !.defaultSettings = newSettings,
                                           !.settings = newSettings]
       ELSE manager' = [manager EXCEPT !.message = "Failed to load settings"]
  /\ UNCHANGED <<site_settings, deliverySettings, feeCall, geoVars, uiVars,
                 normCall, menu, ratings>>

\* handleChange(service, field, value): a fresh object for the service
HandleChange(service, field, value) ==
  /\ manager' = [manager EXCEPT !.settings[service][field] =
                                   Num(OrDefault(parseFloat(value), 0))]
  /\ UNCHANGED <<site_settings, deliverySettings, feeCall, geoVars, uiVars,
                 normCall, menu, ratings>>

\* a row removed from site_settings outside the application
RowRemoved(id) ==
  /\ site_settings[id] # "absent"
  /\ site_settings' = [site_settings EXCEPT ![id] = "absent"]
  /\ UNCHANGED <<deliverySettings, feeCall, geoVars, uiVars, appVars>>

\* handleSave(service) up to its first await: the three updates are built from the
\* settings on display
HandleSave(service) ==
  /\ manager.saving = "null"
  /\ manager' = [manager EXCEPT
       !.saving = service, !.message = "null", !.next = 1, !.saved = service,
       !.updates = [i \in 1..3 |-> NumberToString(manager.settings[service][Fields[i]])],
       !.before = [i \in 1..3 |-> site_settings[SettingId(service, i)]]]
  /\ UNCHANGED <<site_settings, deliverySettings, feeCall, geoVars, uiVars,
                 normCall, menu, ratings>>

\* the answer of one upsert of the loop: an error leaves the loop for the catch
\* block, the last success sets the message and its timeout
Upsert(outcome) ==
  /\ manager.saving # "null"
  /\ IF outcome = "error"
       THEN /\ manager' = [manager EXCEPT !.message = "Failed to save settings",
                                          !.saving = "null", !.next = 0,
                                          !.updates = <<>>]
            /\ UNCHANGED site_settings
       ELSE /\ site_settings' =
                 [site_settings EXCEPT ![SettingId(manager.saving, manager.next)] =
                                          manager.updates[manager.next]]
            /\ manager' = IF manager.next < 3
                            THEN [manager EXCEPT !.next = manager.next + 1]
                            ELSE [manager EXCEPT !.message = "saved", !.saving = "null",
                                                 !.next = 0, !.updates = <<>>,
                                                 !.clearPending = TRUE]
  /\ UNCHANGED <<deliverySettings, feeCall, geoVars, uiVars, normCall, menu, ratings>>

\* setTimeout(() => setMessage(null), 3000) of a successful save
MessageTimeout ==
  /\ manager.clearPending
  /\ manager' = [manager EXCEPT !.message = "null", !.clearPending = FALSE]
  /\ UNCHANGED <<site_settings, deliverySettings, feeCall, geoVars, uiVars,
                 normCall, menu, ratings>>

\* the service whose section the administrator works on
EditedService == "padala"

InitManager ==
  /\ apiKey = FALSE
  /\ site_settings \in
       { [id \in AllSettingKeys |->
            IF \E i \in 1..3 : id = SettingId(EditedService, i) /\ rows[i] # "absent"
              THEN rows[CHOOSE i \in 1..3 : id = SettingId(EditedService, i)]
              ELSE "absent"] : rows \in [1..3 -> {"absent", "2.5", "60"}] }
  /\ deliverySettings = DefaultDeliverySettings
  /\ feeCall = NoFeeCall
  /\ HookIdle
  /\ ScreensIdle
  /\ AdminIdle

\* loads of the settings while rows disappear from the store
NextReload ==
  \/ \E outcome \in {"ok", "error"} : FetchSettings(outcome)
  \/ \E i \in 1..3 : RowRemoved(SettingId(EditedService, i))
  \/ \E i \in 1..3, value \in {"2.5", "abc"} : HandleChange(EditedService, Fields[i], value)

SpecReload == InitManager /\ [][NextReload]_vars

\* editing and saving one service's settings
NextSave ==
  \/ \E i \in 1..3 : HandleChange(EditedService, Fields[i], "2.5")
  \/ HandleSave(EditedService)
  \/ \E outcome \in {"ok", "error"} : Upsert(outcome)
  \/ MessageTimeout

SpecSave == InitManager /\ [][NextSave]_vars

(***************************************************************************)
(* useRestaurantMenuAdmin: updateMenuItem on one menu item                 *)
(***************************************************************************)
\* names of variations and add-ons as typed in the form; " " is a blank name
TrimName(n) == IF n = " " THEN "" ELSE n

\* updates.variations / updates.addOns: not supplied, or an array of names
Supplied(names) == [k |-> "array", v |-> names]

\* validVariations / validAddOns: the names kept by the filter, trimmed
ValidNames(arg) ==
  { TrimName(arg.v[i]) : i \in { k \in 1..Len(arg.v) : TrimName(arg.v[k]) # "" } }

\* where updateMenuItem goes after the two deletes
AfterDeletes(u) ==
  IF ValidNames(u.variations) # {} THEN "insertVariations"
  ELSE IF ValidNames(u.addOns) # {} THEN "insertAddOns"
  ELSE "fetch"

\* updateMenuItem(id, updates) up to the await of the update of menu_items
StartUpdateMenuItem(updates) ==
  /\ menu.stage \in {"idle", "done"}
  /\ menu' = [menu EXCEPT !.stage = "update", !.updates = updates, !.thrown = FALSE,
                          !.before = [variations |-> menu.variations,
                                      addOns |-> menu.addOns]]
  /\ UNCHANGED <<feeVars, geoVars, uiVars, normCall, manager, ratings>>

\* the answer of the update of menu_items
UpdateItem(outcome) ==
  /\ menu.stage = "update"
  /\ menu' = IF outcome = "error"
               THEN [menu EXCEPT !.stage = "done", !.thrown = TRUE]
               ELSE [menu EXCEPT !.stage = "deleteVariations",
                                 !.name = IF menu.updates.name = "undefined"
                                            THEN menu.name ELSE menu.updates.name]
  /\ UNCHANGED <<feeVars, geoVars, uiVars, normCall, manager, ratings>>

\* the answers of the two deletes, whose errors are not looked at
DeleteVariations(outcome) ==
  /\ menu.stage = "deleteVariations"
  /\ menu' = [menu EXCEPT !.stage = "deleteAddOns",
                          !.variations = IF outcome = "error" THEN menu.variations ELSE {}]
  /\ UNCHANGED <<feeVars, geoVars, uiVars, normCall, manager, ratings>>

DeleteAddOns(outcome) ==
  /\ menu.stage = "deleteAddOns"
  /\ menu' = [menu EXCEPT !.stage = AfterDeletes(menu.updates),
                          !.addOns = IF outcome = "error" THEN menu.addOns ELSE {}]
  /\ UNCHANGED <<feeVars, geoVars, uiVars, normCall, manager, ratings>>

\* the answers of the inserts of the supplied rows
InsertVariations(outcome) ==
  /\ menu.stage = "insertVariations"
  /\ menu' = IF outcome = "error"
               THEN [menu EXCEPT !.stage = "done", !.thrown = TRUE]
               ELSE [menu EXCEPT !.stage = IF ValidNames(menu.updates.addOns) # {}
                                             THEN "insertAddOns" ELSE "fetch",
                                 !.variations =
                                    menu.variations \cup ValidNames(menu.updates.variations)]
  /\ UNCHANGED <<feeVars, geoVars, uiVars, normCall, manager, ratings>>

InsertAddOns(outcome) ==
  /\ menu.stage = "insertAddOns"
  /\ menu' = IF outcome = "error"
               THEN [menu EXCEPT !.stage = "done", !.thrown = TRUE]
               ELSE [menu EXCEPT !.stage = "fetch",
                                 !.addOns = menu.addOns \cup ValidNames(menu.updates.addOns)]
  /\ UNCHANGED <<feeVars, geoVars, uiVars, normCall, manager, ratings>>

\* await fetchMenuItems(), which catches its own errors
FetchMenuItems ==
  /\ menu.stage = "fetch"
  /\ menu' = [menu EXCEPT !.stage = "done"]
  /\ UNCHANGED <<feeVars, geoVars, uiVars, normCall, manager, ratings>>

InitMenu ==
  /\ apiKey = FALSE
  /\ site_settings = [id \in SettingKeys |-> "absent"]
  /\ deliverySettings = DefaultDeliverySettings
  /\ feeCall = NoFeeCall
  /\ HookIdle
  /\ ScreensIdle
  /\ normCall = NoNormCall
  /\ manager = ManagerIdle
  /\ menu \in { [NoMenu EXCEPT !.name = "Halo", !.variations = v, !.addOns = a] :
                  v \in {{}, {"Small"}}, a \in {{}, {"Egg"}} }
  /\ ratings = NoRatings

NextMenu ==
  \/ \E updates \in [name : {"undefined", "Halo-halo"}, variations : {NoUpdates.variations, Supplied(<<>>), Supplied(<<"Large">>), Supplied(<<"Large", " ">>), Supplied(<<" ">>)}, addOns : {NoUpdates.addOns, Supplied(<<>>), Supplied(<<"Cheese">>)}] : StartUpdateMenuItem(updates)
  \/ \E outcome \in {"ok", "error"} :
       \/ UpdateItem(outcome)
       \/ DeleteVariations(outcome)
       \/ DeleteAddOns(outcome)
       \/ InsertVariations(outcome)
       \/ InsertAddOns(outcome)
  \/ FetchMenuItems

SpecMenu == InitMenu /\ [][NextMenu]_vars

(***************************************************************************)
(* useRestaurantRating: one client device rating one restaurant            *)
(***************************************************************************)
\* submitRating calls of the device that may be awaiting an answer together
MaxSubmits == 2

\* ratings of the device followed in the store
MaxRows == 2

\* what getUserIP() returns on the device: the address ipify reports, or, when
\* the request fails, the first 50 characters of browser_<userAgent>_<Date.now()>,
\* which for a user agent of 42 characters or more hold nothing of the time
DeviceIds == {"203.0.113.7", "browser_Mozilla"}

AlreadyRated == "You have already rated this restaurant from this device."

HasRow(ipAddress) == \E k \in 1..Len(ratings.rows) : ratings.rows[k].ip_address = ipAddress

Without(calls, i) == SubSeq(calls, 1, i - 1) \o SubSeq(calls, i + 1, Len(calls))

\* the page is opened: useState initial values, then checkIfRated() of the effect
Mount(ipAddress, outcome) ==
  /\ ratings.calls = <<>>
  /\ ratings' = [ratings EXCEPT
       !.hasRated = IF outcome = "ok" /\ HasRow(ipAddress) THEN "true" ELSE "false",
       !.isSubmitting = FALSE, !.error = "null"]
  /\ UNCHANGED <<feeVars, geoVars, uiVars, normCall, manager, menu>>

\* handleRatingClick(rating) and submitRating(rating) up to the await of getUserIP
SubmitRating(rating) ==
  /\ ratings.hasRated # "true"
  /\ Len(ratings.calls) < MaxSubmits
  /\ Len(ratings.rows) + Len(ratings.calls) < MaxRows
  /\ ratings' = IF rating < 1 \/ rating > 5
                  THEN [ratings EXCEPT !.error = "Rating must be between 1 and 5"]
                  ELSE [ratings EXCEPT !.isSubmitting = TRUE, !.error = "null",
                          !.calls = Append(@, [rating |-> rating, pc |-> "getUserIP",
                                               ipAddress |-> "null"])]
  /\ UNCHANGED <<feeVars, geoVars, uiVars, normCall, manager, menu>>

\* getUserIP() answers the i-th call
GetUserIP(i, ipAddress) ==
  /\ i \in 1..Len(ratings.calls)
  /\ ratings.calls[i].pc = "getUserIP"
  /\ ratings' = [ratings EXCEPT !.calls[i].pc = "select",
                                !.calls[i].ipAddress = ipAddress]
  /\ UNCHANGED <<feeVars, geoVars, uiVars, normCall, manager, menu>>

\* the select of an existing rating answers; its error is not looked at
SelectReturns(i, outcome) ==
  /\ i \in 1..Len(ratings.calls)
  /\ ratings.calls[i].pc = "select"
  /\ ratings' = IF outcome = "ok" /\ HasRow(ratings.calls[i].ipAddress)
                  THEN [ratings EXCEPT !.error = AlreadyRated, !.isSubmitting = FALSE,
                                       !.calls = Without(@, i)]
                  ELSE [ratings EXCEPT !.calls[i].pc = "insert"]
  /\ UNCHANGED <<feeVars, geoVars, uiVars, normCall, manager, menu>>

\* the insert answers: a duplicate key where the table has the unique constraint,
\* another error, or the row is stored
InsertReturns(i, outcome) ==
  /\ i \in 1..Len(ratings.calls)
  /\ ratings.calls[i].pc = "insert"
  /\ LET c == ratings.calls[i]
     IN  ratings' =
           IF outcome = "error"
             THEN [ratings EXCEPT !.error = "Failed to submit rating",
                                  !.isSubmitting = FALSE, !.calls = Without(@, i)]
           ELSE IF ratings.unique /\ HasRow(c.ipAddress)
             THEN [ratings EXCEPT !.error = AlreadyRated, !.isSubmitting = FALSE,
                                  !.calls = Without(@, i)]
           ELSE [ratings EXCEPT !.rows = Append(@, [ip_address |-> c.ipAddress,
                                                     rating |-> c.rating]),
                                !.hasRated = "true", !.isSubmitting = FALSE,
                                !.calls = Without(@, i)]
  /\ UNCHANGED <<feeVars, geoVars, uiVars, normCall, manager, menu>>

\* the table restaurant_ratings with or without a unique constraint on
\* (restaurant_id, ip_address)
InitRatings ==
  /\ apiKey = FALSE
  /\ site_settings = [id \in SettingKeys |-> "absent"]
  /\ deliverySettings = DefaultDeliverySettings
  /\ feeCall = NoFeeCall
  /\ HookIdle
  /\ ScreensIdle
  /\ normCall = NoNormCall
  /\ manager = ManagerIdle
  /\ menu = NoMenu
  /\ ratings \in { [NoRatings EXCEPT !.unique = u] : u \in BOOLEAN }

NextRatings ==
  \/ \E ipAddress \in DeviceIds, outcome \in {"ok", "error"} : Mount(ipAddress, outcome)
  \/ \E rating \in {0, 3, 6} : SubmitRating(rating)
  \/ \E i \in 1..MaxSubmits :
       \/ \E ipAddress \in DeviceIds : GetUserIP(i, ipAddress)
       \/ \E outcome \in {"ok", "error"} : SelectReturns(i, outcome)
       \/ \E outcome \in {"ok", "error"} : InsertReturns(i, outcome)

SpecRatings == InitRatings /\ [][NextRatings]_vars

(***************************************************************************)
(* PadalaBooking: the two debounced address fields, calculateFee, submit   *)
(* (hubDistance and the map pins, which are display only, are left out)    *)
(***************************************************************************)
\* calculateFee calls that may await an answer at the same time
MaxCalls == 2

\* the effect on the debounced addresses: calculateFee() up to its await, when
\* one of them is not empty; it reads the form's current texts
TriggerCalculateFee(b) ==
  IF (b.debouncedPickupAddress = <<>> /\ b.debouncedDeliveryAddress = <<>>)
       \/ Trim(b.delivery_address) = <<>>
    THEN b
    ELSE LET pickup == IF b.pickup_address # <<>> THEN b.pickup_address ELSE <<"Floridablanca", ",", "Pampanga">>
         IN  [b EXCEPT !.calls = Append(@, <<pickup, b.delivery_address>>),
                       !.sent = [started |-> TRUE, pickup |-> pickup,
                                 delivery |-> b.delivery_address,
                                 pickupPending |-> b.pickupTimer /\ b.pickup_address # <<>>,
                                 deliveryPending |-> b.deliveryTimer]]

\* handleInputChange on an address field: the field's effect clears its timeout
\* and sets a new one
EditPickupAddress(a) ==
  /\ a # booking.pickup_address
  /\ booking' = [booking EXCEPT !.pickup_address = a, !.pickupTimer = TRUE]
  /\ UNCHANGED <<appVars, feeVars, geoVars, checkout, timer, inflight, order>>

EditDeliveryAddress(a) ==
  /\ a # booking.delivery_address
  /\ booking' = [booking EXCEPT !.delivery_address = a, !.deliveryTimer = TRUE]
  /\ UNCHANGED <<appVars, feeVars, geoVars, checkout, timer, inflight, order>>

\* a field's timeout fires: its debounced copy is set and, when that changes it,
\* the effect on the debounced addresses runs
PickupTimerFires ==
  /\ booking.pickupTimer
  /\ Len(booking.calls) < MaxCalls
  /\ LET b == [booking EXCEPT !.pickupTimer = FALSE,
                              !.debouncedPickupAddress = booking.pickup_address]
     IN  booking' = IF booking.debouncedPickupAddress # booking.pickup_address
                      THEN TriggerCalculateFee(b) ELSE b
  /\ UNCHANGED <<appVars, feeVars, geoVars, checkout, timer, inflight, order>>

DeliveryTimerFires ==
  /\ booking.deliveryTimer
  /\ Len(booking.calls) < MaxCalls
  /\ LET b == [booking EXCEPT !.deliveryTimer = FALSE,
                              !.debouncedDeliveryAddress = booking.delivery_address]
     IN  booking' = IF booking.debouncedDeliveryAddress # booking.delivery_address
                      THEN TriggerCalculateFee(b) ELSE b
  /\ UNCHANGED <<appVars, feeVars, geoVars, checkout, timer, inflight, order>>

\* calculateDistanceBetweenAddresses answers the i-th calculateFee call
CalculateFeeReturns(i, result) ==
  /\ i \in 1..Len(booking.calls)
  /\ booking' =
       [BookingFeeUpdate(booking, booking.title, result) EXCEPT
          !.calls = SubSeq(booking.calls, 1, i - 1)
                      \o SubSeq(booking.calls, i + 1, Len(booking.calls)),
          !.feeFor = booking.calls[i]]
  /\ UNCHANGED <<appVars, feeVars, geoVars, checkout, timer, inflight, order>>

\* handleSubmit of a Padala booking, the other required fields being filled in:
\* the row inserted into padala_bookings
SubmitBooking ==
  /\ booking.pickup_address # <<>>
  /\ booking.delivery_address # <<>>
  /\ booking' = [booking EXCEPT !.submitted =
                   [done |-> TRUE, pickup_address |-> booking.pickup_address,
                    delivery_address |-> booking.delivery_address,
                    delivery_fee |-> IF booking.deliveryFee = Num(0) THEN Null
                                                                 ELSE booking.deliveryFee,
                    distance_km |-> IF booking.distance = Num(0) THEN Null
                                                                ELSE booking.distance,
                    feeFor |-> booking.feeFor]]
  /\ UNCHANGED <<appVars, feeVars, geoVars, checkout, timer, inflight, order>>

InitDebounce ==
  /\ apiKey = FALSE
  /\ site_settings = [id \in SettingKeys |-> "absent"]
  /\ deliverySettings = DefaultDeliverySettings
  /\ feeCall = NoFeeCall
  /\ HookIdle
  /\ booking = [NoBooking EXCEPT !.title = "Padala"]
  /\ checkout = CheckoutIdle
  /\ timer = NoTimer
  /\ inflight = <<>>
  /\ order = NoOrder
  /\ AdminIdle

NextDebounce ==
  \/ \E a \in { <<>>, <<"Luneta">> } : EditPickupAddress(a)
  \/ \E a \in { <<>>, <<"brgy", "Floridablanca">> } : EditDeliveryAddress(a)
  \/ PickupTimerFires
  \/ DeliveryTimerFires
  \/ \E i \in 1..MaxCalls, result \in {NullRet, [NoRet EXCEPT !.state = "result",
                                                             !.distance = Num(17)]} :
       CalculateFeeReturns(i, result)
  \/ SubmitBooking

SpecDebounce == InitDebounce /\ [][NextDebounce]_vars

(***************************************************************************)
(* Checkout: the address field, its debounced computation, the steps       *)
(* (customerLocation and isCalculatingDistance, which only drive the map   *)
(* and a spinner, are left out)                                            *)
(***************************************************************************)
\* computations that may await an answer at the same time
MaxInFlight == 2

\* the `${lat},${lng}` text handleLocationSelect hands to calculateDistance
PinText == <<"lat,lng">>

\* the answers calculateDistance may give: null or a DistanceResult
DistanceAnswers == { NullRet, [NoRet EXCEPT !.state = "result", !.distance = Num(17)] }

Computation(kind, address, pc) == [kind |-> kind, address |-> address, pc |-> pc]

\* inflight without its i-th computation
Finish(i) == SubSeq(inflight, 1, i - 1) \o SubSeq(inflight, i + 1, Len(inflight))

\* the address effect for a new value of address: the cleanup of the previous
\* run clears its timeout; a non-blank address schedules the computation, a
\* blank one resets the display
AddressEffect(c, a) ==
  IF Trim(a) # <<>>
    THEN /\ checkout' = [c EXCEPT !.address = a]
         /\ timer' = [set |-> TRUE, address |-> a]
    ELSE /\ checkout' = [c EXCEPT !.address = a, !.distance = Null, !.deliveryFee = Num(600),
                                  !.isWithinArea = "null", !.areaCheckError = "null",
                                  !.areaFor = NoAddress, !.distanceFor = NoAddress]
         /\ timer' = NoTimer

\* onChange of the address input
EditAddress(a) ==
  /\ checkout.step = "details"
  /\ a # checkout.address
  /\ AddressEffect(checkout, a)
  /\ UNCHANGED <<appVars, feeVars, geoVars, booking, inflight, order>>

\* the timeout fires: the callback runs up to its first await, isWithinDeliveryArea
TimerFires ==
  /\ timer.set
  /\ Len(inflight) < MaxInFlight
  /\ inflight' = Append(inflight, Computation("effect", timer.address, "area"))
  /\ timer' = NoTimer
  /\ checkout' = [checkout EXCEPT !.areaCheckError = "null"]
  /\ UNCHANGED <<appVars, feeVars, geoVars, booking, order>>

\* isWithinDeliveryArea answers the i-th computation
AreaCheckReturns(i, areaCheck) ==
  /\ i \in 1..Len(inflight)
  /\ inflight[i].pc = "area"
  /\ LET a == inflight[i].address
         flagged == [checkout EXCEPT
                       !.isWithinArea = IF areaCheck.within THEN "true" ELSE "false",
                       !.areaFor = a,
                       !.areaCheckError = IF areaCheck.error # "undefined"
                                            THEN areaCheck.error ELSE @]
     IN  IF areaCheck.within
           THEN /\ checkout' = flagged
                /\ inflight' = [inflight EXCEPT ![i].pc = "distance"]
           ELSE /\ checkout' = [flagged EXCEPT !.distance = Null, !.deliveryFee = Num(0),
                                               !.distanceFor = a]
                /\ inflight' = Finish(i)
  /\ UNCHANGED <<appVars, feeVars, geoVars, booking, timer, order>>

\* calculateDistance answers the i-th computation
DistanceReturns(i, result) ==
  /\ i \in 1..Len(inflight)
  /\ inflight[i].pc = "distance"
  /\ checkout' =
       IF result.state = "result"
         THEN [checkout EXCEPT !.distance = result.distance,
                               !.deliveryFee = calculateDeliveryFee(result.distance, deliverySettings),
                               !.distanceFor = inflight[i].address]
         ELSE [checkout EXCEPT !.distance = Null, !.deliveryFee = Num(600),
                               !.distanceFor = inflight[i].address]
  /\ inflight' = Finish(i)
  /\ UNCHANGED <<appVars, feeVars, geoVars, booking, timer, order>>

\* handleLocationSelect up to its first await, reverseGeocode
LocationSelect ==
  /\ checkout.step = "details"
  /\ Len(inflight) < MaxInFlight
  /\ inflight' = Append(inflight, Computation("pin", PinText, "reverse"))
  /\ UNCHANGED <<appVars, feeVars, geoVars, booking, checkout, timer, order>>

\* reverseGeocode answers: null ends the handler, a text becomes the address
\* and the handler awaits calculateDistance for the pin
ReverseGeocodeReturns(i, newAddress) ==
  /\ i \in 1..Len(inflight)
  /\ inflight[i].pc = "reverse"
  /\ IF newAddress = NoAddress
       THEN /\ inflight' = Finish(i)
            /\ UNCHANGED <<checkout, timer>>
       ELSE /\ inflight' = [inflight EXCEPT ![i].pc = "pin"]
            /\ IF newAddress # checkout.address
                 THEN AddressEffect(checkout, newAddress)
                 ELSE UNCHANGED <<checkout, timer>>
  /\ UNCHANGED <<appVars, feeVars, geoVars, booking, order>>

\* calculateDistance answers handleLocationSelect
PinDistanceReturns(i, result) ==
  /\ i \in 1..Len(inflight)
  /\ inflight[i].pc = "pin"
  /\ checkout' =
       IF result.state = "result"
         THEN [checkout EXCEPT !.distance = result.distance,
                               !.deliveryFee = calculateDeliveryFee(result.distance, deliverySettings),
                               !.distanceFor = PinText,
                               !.isWithinArea = "true", !.areaFor = NoAddress]
         ELSE [checkout EXCEPT !.isWithinArea = "false", !.areaFor = NoAddress]
  /\ inflight' = Finish(i)
  /\ UNCHANGED <<appVars, feeVars, geoVars, booking, timer, order>>

\* customerName && contactNumber && address && isWithinArea === true, the name
\* and the number being filled in
isDetailsValid == checkout.address # <<>> /\ checkout.isWithinArea = "true"

\* the button of the details step, disabled unless isDetailsValid
ProceedToPayment ==
  /\ checkout.step = "details"
  /\ isDetailsValid
  /\ checkout' = [checkout EXCEPT !.step = "payment"]
  /\ UNCHANGED <<appVars, feeVars, geoVars, booking, timer, inflight, order>>

BackToDetails ==
  /\ checkout.step = "payment"
  /\ checkout' = [checkout EXCEPT !.step = "details"]
  /\ UNCHANGED <<appVars, feeVars, geoVars, booking, timer, inflight, order>>

\* handlePlaceOrder: the order text is built from the state on display
PlaceOrder ==
  /\ checkout.step = "payment"
  /\ order' = [placed |-> TRUE, address |-> checkout.address,
               deliveryFee |-> checkout.deliveryFee, isWithinArea |-> checkout.isWithinArea,
               areaFor |-> checkout.areaFor, distanceFor |-> checkout.distanceFor]
  /\ UNCHANGED <<appVars, feeVars, geoVars, booking, checkout, timer, inflight>>

InitCheckout ==
  /\ apiKey = FALSE
  /\ site_settings = [id \in SettingKeys |-> "absent"]
  /\ deliverySettings = DefaultDeliverySettings
  /\ feeCall = NoFeeCall
  /\ HookIdle
  /\ ScreensIdle
  /\ AdminIdle

NextCheckout ==
  \/ \E a \in (CheckoutAddresses \cup { <<>> }) : EditAddress(a)
  \/ TimerFires
  \/ \E i \in 1..MaxInFlight, areaCheck \in { isWithinDeliveryArea("Hub", c) : c \in {"Near", "Baguio", "null"} } : AreaCheckReturns(i, areaCheck)
  \/ \E i \in 1..MaxInFlight, result \in DistanceAnswers : DistanceReturns(i, result)
  \/ LocationSelect
  \/ \E i \in 1..MaxInFlight, newAddress \in CheckoutAddresses \cup {NoAddress} :
       ReverseGeocodeReturns(i, newAddress)
  \/ \E i \in 1..MaxInFlight, result \in DistanceAnswers : PinDistanceReturns(i, result)
  \/ ProceedToPayment
  \/ BackToDetails
  \/ PlaceOrder

SpecCheckout == InitCheckout /\ [][NextCheckout]_vars

(***************************************************************************)
(* Address normalisation as a function of its input                        *)
(***************************************************************************)
\* the longest address, in tokens
MaxTokens == 3

AllAddresses == UNION { [1..n -> {" ", "pangpaga", "PAMPANGA", "brgy", "Barangay", "st", "av", "Luneta"}] : n \in 0..MaxTokens }

\* the geocoders' normalisation of the address, applied to it and to its result
NormalizeAddress ==
  /\ ~normCall.called
  /\ LET once == normalizePhilippineAddress(normalizePlusCodeAddress(normCall.address))
     IN  normCall' = [called |-> TRUE, address |-> normCall.address, once |-> once,
                      twice |-> normalizePhilippineAddress(normalizePlusCodeAddress(once))]
  /\ UNCHANGED <<feeVars, geoVars, uiVars, manager, menu, ratings>>

InitNormalize ==
  /\ apiKey = FALSE
  /\ site_settings = [id \in SettingKeys |-> "absent"]
  /\ deliverySettings = DefaultDeliverySettings
  /\ feeCall = NoFeeCall
  /\ HookIdle
  /\ ScreensIdle
  /\ normCall \in { [NoNormCall EXCEPT !.address = a] : a \in AllAddresses }
  /\ manager = ManagerIdle
  /\ menu = NoMenu
  /\ ratings = NoRatings

NextNormalize == NormalizeAddress

SpecNormalize == InitNormalize /\ [][NextNormalize]_vars

(***************************************************************************)
(* Fee calculator properties (SpecFee)                                     *)
(***************************************************************************)
\* the whole kilometres beyond the base distance: the k with
\* k <= max(0, d - base) < k + 1, for a distance d and a base in tenths
FullKmBeyond(d, base) ==
  CHOOSE k \in 0..(MaxDistance + 1) :
    LET over == IF d - base > 0 THEN d - base ELSE 0
    IN  10 * k <= over /\ over < 10 * (k + 1)

\* C1: for every distance that is not null, undefined or NaN the fee is
\* baseFee + floor(max(0, d - baseDistance)) * perKmFee under the settings
\* loaded at the call: a started kilometre is charged only once it is full
\* (an infinite distance gives an infinite fee, minus infinity the base fee).
C1_FeeFormula ==
  (feeCall.called /\ feeCall.distance.k \in {"num", "inf", "-inf"}) =>
    LET d == feeCall.distance
        s == feeCall.settings
    IN  CASE d.k = "num" ->
               feeCall.fee = Num(s.baseFee + FullKmBeyond(d.v, s.baseDistance) * s.perKmFee)
          [] d.k = "inf" -> feeCall.fee = PosInf
          [] OTHER -> feeCall.fee = Num(s.baseFee)

\* a call 2.7 km beyond a loaded base distance of 2.5 km: two kilometres billed
C1_Witness ==
  /\ feeCall.called
  /\ feeCall.settings.baseDistance = 25
  /\ feeCall.distance = Num(52)
  /\ feeCall.fee = Num(feeCall.settings.baseFee + 2 * feeCall.settings.perKmFee)

\* C2: for a null, undefined or NaN distance the fee is exactly the loaded baseFee.
C2_UnknownDistanceIsBaseFee ==
  (feeCall.called /\ feeCall.distance \in {Null, Undefined, NaN}) =>
    feeCall.fee = Num(feeCall.settings.baseFee)

\* a NaN distance under a loaded base fee of 2.5 and a loaded per-km fee of 60
C2_Witness ==
  /\ feeCall.called
  /\ feeCall.distance = NaN
  /\ feeCall.settings.baseFee = 25
  /\ feeCall.settings.perKmFee = 600
  /\ feeCall.fee = Num(25)

\* C3 as stated: with baseFee=60, perKmFee=13, baseDistance=3 the fee is 60 for
\* 3.9 km, 73 for 4.0 km, 73 for 5.9 km and 86 for 6.0 km.
C3_AsStated ==
  (feeCall.called /\ feeCall.settings = [baseFee |-> 600, perKmFee |-> 130, baseDistance |-> 30]) =>
    /\ feeCall.distance = Num(39) => feeCall.fee = Num(600)
    /\ feeCall.distance = Num(40) => feeCall.fee = Num(730)
    /\ feeCall.distance = Num(59) => feeCall.fee = Num(730)
    /\ feeCall.distance = Num(60) => feeCall.fee = Num(860)

\* C3 amended: with baseFee=60, perKmFee=13, baseDistance=3 the fee is 60 for
\* 3.9 km, 73 for 4.0 km, 86 for 5.9 km and 99 for 6.0 km.
C3_FloorExamples ==
  (feeCall.called /\ feeCall.settings = [baseFee |-> 600, perKmFee |-> 130, baseDistance |-> 30]) =>
    /\ feeCall.distance = Num(39) => feeCall.fee = Num(600)
    /\ feeCall.distance = Num(40) => feeCall.fee = Num(730)
    /\ feeCall.distance = Num(59) => feeCall.fee = Num(860)
    /\ feeCall.distance = Num(60) => feeCall.fee = Num(990)

\* the 6.0 km call under the 60 / 13 / 3 settings
C3_Witness ==
  /\ feeCall.called
  /\ feeCall.settings = [baseFee |-> 600, perKmFee |-> 130, baseDistance |-> 30]
  /\ feeCall.distance = Num(60)
  /\ feeCall.fee = Num(990)

\* C4: under unchanged settings (all >= 0) the fee is monotone in the distance:
\* a call with distance d1 followed by a call with d2, 0 <= d1 <= d2, never
\* returns a smaller fee.
C4_FeeMonotone ==
  [][ ( /\ feeCall.called
        /\ feeCall'.called
        /\ feeCall'.settings = feeCall.settings
        /\ feeCall.distance.k \in {"num", "inf"}
        /\ feeCall'.distance.k \in {"num", "inf"}
        /\ Leq(Num(0), feeCall.distance)
        /\ Leq(feeCall.distance, feeCall'.distance) )
      => Leq(feeCall.fee, feeCall'.fee) ]_vars

\* a call below the loaded base distance of 6 km that was billed the bare base fee
C4_Witness ==
  /\ feeCall.called
  /\ feeCall.settings.baseDistance = 600
  /\ feeCall.distance = Num(7)
  /\ feeCall.fee = Num(feeCall.settings.baseFee)

\* C5: a negative or non-finite distance is treated as unknown: the fee is
\* exactly baseFee, never below baseFee and never a non-finite value.
C5_InvalidDistanceIsBaseFee ==
  ( /\ feeCall.called
    /\ \/ feeCall.distance.k \in {"nan", "inf", "-inf"}
       \/ feeCall.distance.k = "num" /\ feeCall.distance.v < 0 )
  => /\ feeCall.fee = Num(feeCall.settings.baseFee)
     /\ feeCall.fee.k = "num"
     /\ Leq(Num(feeCall.settings.baseFee), feeCall.fee)

(***************************************************************************)
(* Geocoding and distance properties (SpecGeo)                             *)
(***************************************************************************)
\* the geocoding requests sent for the k-th address of the operation, in order
GeoRequests(k) == SelectSeq(requests, LAMBDA r : r.which = k)
GoogleRequests(k) == SelectSeq(GeoRequests(k), LAMBDA r : r.provider = "google")
OSMRequests(k) == SelectSeq(GeoRequests(k), LAMBDA r : r.provider = "osm")

\* Math.round(1.2 * haversine * 10) / 10 for the two ends of a route, in tenths of km
FallbackDistance(ends) ==
  IF ends[1] \in Places /\ ends[2] \in Places
    THEN Num((12 * StraightLineMeters(ends[1], ends[2]) + 500) \div 1000)
    ELSE NaN

RoutingFailures == {"reject", "not_ok", "badjson", "code_not_ok", "no_routes", "null_route"}

\* C6: once every address of the operation is geocoded the operation returns a
\* DistanceResult and leaves the hook's error unset; when the routing request
\* ended in a non-success status, an exception, a non-'Ok' code or no route, the
\* result is the great-circle fallback distance without a duration.
C6_RoutingFailureFallsBack ==
  /\ ( /\ call.stage = "done"
       /\ Len(call.coords) = Len(call.addrs)
       /\ \A i \in 1..Len(call.coords) : call.coords[i] # "null" )
     => (ret.state = "result" /\ error = "null")
  /\ ( /\ call.stage = "done"
       /\ requests # <<>>
       /\ requests[Len(requests)].provider = "osrm"
       /\ requests[Len(requests)].outcome \in RoutingFailures )
     => /\ ret.state = "result"
        /\ ret.distance = FallbackDistance(requests[Len(requests)].query)
        /\ ret.duration = Undefined
        /\ error = "null"

\* calculateDistance from the hub to Near after the routing request was rejected
C6_Witness ==
  /\ call.stage = "done"
  /\ call.fn = "calculateDistance"
  /\ requests # <<>>
  /\ requests[Len(requests)] = Request("osrm", 0, <<"Hub", "Near">>, "reject", "null")
  /\ ret.state = "result"
  /\ ret.distance = Num(17)
  /\ ret.duration = Undefined

\* C7: the requests of one resolution go to Google's variants in list order (none
\* without an API key, Google first with one), then to Nominatim's variants in
\* list order and only if no Google variant gave a result; the first request
\* that gives a result is the last of the resolution and its coordinate is the
\* one returned.
C7_ResolutionOrder ==
  \A k \in 1..Len(call.addrs) :
    LET L == GeoRequests(k)
        G == GoogleRequests(k)
        O == OSMRequests(k)
        gv == GoogleVariations(call.addrs[k])
        ov == OSMVariations(call.addrs[k])
    IN  /\ L = G \o O
        /\ ~apiKey => G = <<>>
        /\ (apiKey /\ L # <<>>) => L[1].provider = "google"
        /\ Len(G) <= Len(gv)
        /\ \A i \in 1..Len(G) : G[i].query = gv[i]
        /\ Len(O) <= Len(ov)
        /\ \A i \in 1..Len(O) : O[i].query = ov[i]
        /\ O # <<>> => \A i \in 1..Len(G) : G[i].outcome # "result"
        /\ \A i \in 1..Len(L) :
             L[i].outcome = "result" =>
               /\ i = Len(L)
               /\ k <= Len(call.coords)
               /\ call.coords[k] = L[i].coord

\* a resolution that Google did not resolve and Nominatim's second variant did
C7_Witness ==
  \E k \in 1..Len(call.coords) :
    /\ Len(GoogleRequests(k)) >= 2
    /\ Len(OSMRequests(k)) = 2
    /\ OSMRequests(k)[2].outcome = "result"
    /\ call.coords[k] = OSMRequests(k)[2].coord
    /\ call.coords[k] \in Places

C9_NotFoundAfterAllVariants ==
  \A k \in 1..Len(call.coords) :
    call.coords[k] = "null" =>
      /\ Len(OSMRequests(k)) = Len(OSMVariations(call.addrs[k]))
      /\ apiKey => Len(GoogleRequests(k)) = Len(GoogleVariations(call.addrs[k]))

\* C10: an empty address resolves to NotFound without any request to a
\* geocoding provider.
C10_EmptyAddressNoRequest ==
  \A k \in 1..Len(call.addrs) :
    call.addrs[k] = <<>> =>
      /\ GeoRequests(k) = <<>>
      /\ k <= Len(call.coords) => call.coords[k] = "null"

\* the queries of a sequence of requests are pairwise different
DistinctQueries(reqs) ==
  \A i, j \in 1..Len(reqs) : i # j => reqs[i].query # reqs[j].query

\* C11 as stated: a resolution sends at most one request per variant and at most
\* 3 requests to each provider.
C11_AsStated ==
  \A k \in 1..Len(call.addrs) :
    /\ DistinctQueries(GoogleRequests(k))
    /\ DistinctQueries(OSMRequests(k))
    /\ Len(GoogleRequests(k)) <= 3
    /\ Len(OSMRequests(k)) <= 3

\* C11 amended: a resolution sends at most one request per variant, at most 4
\* requests to Google and at most 3 to Nominatim; no request text is sent twice
\* to a provider.
C11_RequestBudget ==
  \A k \in 1..Len(call.addrs) :
    /\ DistinctQueries(GoogleRequests(k))
    /\ DistinctQueries(OSMRequests(k))
    /\ Len(GoogleRequests(k)) <= 4
    /\ Len(OSMRequests(k)) <= 3

\* a resolution that used up both providers: 4 Google requests, then 3 to Nominatim
C11_Witness ==
  \E k \in 1..Len(call.coords) :
    /\ Len(GoogleRequests(k)) = 4
    /\ Len(OSMRequests(k)) = 3
    /\ call.coords[k] = "null"

\* C16: every DistanceResult carries a distance that is a number of tenths of
\* a kilometre, not negative and not NaN, whatever the routing provider answered.
C16_DistanceIsNumber ==
  ret.state = "result" => (ret.distance.k = "num" /\ ret.distance.v >= 0)

\* the routing request could not be made or was answered with a non-success status
Unreachable == {"reject", "not_ok"}

\* C17: when the routing provider is unreachable, the returned distance is the
\* straight-line distance between the two geocoded ends times 1.2 (once), rounded
\* to one decimal: it differs from 1.2 * metres by at most half a tenth of a km.
C17_FallbackIsScaledHaversine ==
  ( /\ call.stage = "done"
    /\ requests # <<>>
    /\ requests[Len(requests)].provider = "osrm"
    /\ requests[Len(requests)].outcome \in Unreachable
    /\ requests[Len(requests)].query[1] \in Places
    /\ requests[Len(requests)].query[2] \in Places )
  => LET ends == requests[Len(requests)].query
         m == StraightLineMeters(ends[1], ends[2])
     IN  /\ ret.state = "result"
         /\ ret.distance.k = "num"
         /\ 1000 * ret.distance.v - 500 <= 12 * m
         /\ 12 * m < 1000 * ret.distance.v + 500

\* Manila to the hub with a non-success routing status: 64.369 km * 1.2 = 77.2 km
C17_Witness ==
  /\ call.stage = "done"
  /\ requests # <<>>
  /\ requests[Len(requests)].provider = "osrm"
  /\ requests[Len(requests)].outcome = "not_ok"
  /\ requests[Len(requests)].query = <<"Manila", "Hub">>
  /\ ret.state = "result"
  /\ ret.distance = Num(772)

\* texts from which no number can be read
Unusable == {"absent", "abc"}

\* a configuration in which every field whose row is missing or unparsable holds
\* the hardcoded default, or which is the initial one (nothing loaded)
DefaultsSubstituted(s) ==
  /\ s.baseFee \in Nat /\ s.perKmFee \in Nat /\ s.baseDistance \in Nat
  /\ \/ s = [baseFee |-> 600, perKmFee |-> 130, baseDistance |-> 30]
     \/ /\ site_settings["delivery_base_fee"] \in Unusable => s.baseFee = 600
        /\ site_settings["delivery_per_km_fee"] \in Unusable => s.perKmFee = 130
        /\ site_settings["delivery_base_distance"] \in Unusable => s.baseDistance = 0

\* C20: the configuration held by the hook, and the one every fee was computed
\* from, has base fee 60 and per-km fee 13 for a missing or unparsable row and a
\* base distance of 0 (after a load) or 3 (before one, or after a failed one);
\* every field is a number.
C20_DefaultsForUnusableConfig ==
  /\ DefaultsSubstituted(deliverySettings)
  /\ feeCall.called => DefaultsSubstituted(feeCall.settings)

\* a fee computed after a load that found an unparsable base fee, no per-km row
\* and an unparsable base distance
C20_Witness ==
  /\ site_settings["delivery_base_fee"] = "abc"
  /\ site_settings["delivery_per_km_fee"] = "absent"
  /\ site_settings["delivery_base_distance"] = "abc"
  /\ feeCall.called
  /\ feeCall.settings = [baseFee |-> 600, perKmFee |-> 130, baseDistance |-> 0]

\* an area check that has returned
AreaDone == call.fn = "isWithinDeliveryArea" /\ call.stage = "done"

\* C12: for a geocoded address the area check answers within = true exactly when
\* the straight-line distance from the start, without the 1.2 factor, is at most
\* the delivery radius of 100 km.
C12_WithinIffStraightLineInRadius ==
  ( /\ AreaDone
    /\ call.coords[1] \in Places
    /\ call.startCoords \in Places )
  => ( ret.within <=> StraightLineMeters(call.startCoords, call.coords[1]) <= 100000 )

\* C13: an area check always returns; for an address no geocoder found it returns
\* within = false with an error text and no distance, for a geocoded address it
\* returns a distance and no error text, and within = false when that distance
\* is a number beyond the radius.
C13_NotFoundVersusTooFar ==
  AreaDone =>
    /\ ret.state = "area"
    /\ call.coords[1] = "null" =>
         (~ret.within /\ ret.error # "undefined" /\ ret.distance = Undefined)
    /\ call.coords[1] # "null" =>
         (ret.error = "undefined" /\ ret.distance # Undefined)
    /\ ( /\ call.coords[1] \in Places
         /\ call.startCoords \in Places
         /\ 12 * StraightLineMeters(call.startCoords, call.coords[1]) > 1000000 )
       => (~ret.within /\ ret.error = "undefined" /\ ret.distance.k = "num")

\* an address not found after every variant of both providers
C13_Witness ==
  /\ AreaDone
  /\ call.coords[1] = "null"
  /\ Len(GoogleRequests(1)) = 4
  /\ Len(OSMRequests(1)) = 3
  /\ ret.within = FALSE
  /\ ret.error = AreaErrNotFound

\* the fee call priced the distance just returned for the hub and the
\* destination at (14.98, 120.54), 1.4 km away, after the routing request failed
QuotedAfterRoutingFailure ==
  /\ call.fn = "calculateDistance"
  /\ call.stage = "done"
  /\ requests # <<>>
  /\ requests[Len(requests)].provider = "osrm"
  /\ requests[Len(requests)].outcome \in RoutingFailures
  /\ requests[Len(requests)].query = <<"Hub", "Near">>
  /\ ret.state = "result"
  /\ feeCall.called
  /\ feeCall.distance = ret.distance
  /\ feeCall.settings = [baseFee |-> 600, perKmFee |-> 130, baseDistance |-> 0]

\* C18: hub to (14.98, 120.54) with the routing provider unavailable and the
\* configuration 60 / 13 per km / base distance 0: the fee is 73.
C18_EndToEndFee == QuotedAfterRoutingFailure => feeCall.fee = Num(730)

\* the scenario with a rejected routing request: distance 1.7, fee 73
C18_Witness ==
  /\ QuotedAfterRoutingFailure
  /\ requests[Len(requests)].outcome = "reject"
  /\ feeCall.distance = Num(17)
  /\ feeCall.fee = Num(730)

\* C19: once the hook has loaded its settings, every fee computed for a Padala
\* or Pabili booking is the fee calculator's value under the base fee, per-km fee
\* and base distance stored for that service line (whenever all three are stored).
C19_ServiceLineConfigUsed ==
  [][ ( /\ booking' # booking
        /\ deliverySettings # DefaultDeliverySettings
        /\ \A i \in 1..3 : site_settings[ServiceLineKeys[booking'.serviceType][i]] # "absent" )
      => LET c == StoredConfig(booking'.serviceType)
         IN  booking'.deliveryFee =
               calculateDeliveryFee(booking'.priced,
                                    [baseFee |-> c.baseFee.v, perKmFee |-> c.perKmFee.v,
                                     baseDistance |-> c.baseDistance.v]) ]_vars

\* C14: the Checkout is on the payment step, and an order was placed, only
\* while isWithinArea is the area check's answer within = true for the address
\* that is entered.
C14_PaymentOnlyForValidatedAddress ==
  /\ checkout.step = "payment" =>
       (checkout.isWithinArea = "true" /\ checkout.areaFor = checkout.address)
  /\ order.placed =>
       (order.isWithinArea = "true" /\ order.areaFor = order.address)

\* C15: once no timeout is pending and no computation awaits an answer, the area
\* flag on display is the one computed for the address entered, and so are the
\* distance and the fee.
C15_LatestAddressWins ==
  ( /\ ~timer.set
    /\ inflight = <<>>
    /\ Trim(checkout.address) # <<>> )
  => /\ checkout.areaFor = checkout.address
     /\ checkout.distanceFor = checkout.address

\* the stored text of a key parses to a number that is not negative
ParsesToNonNegative(id) ==
  parseFloat(site_settings[id]).k = "num" /\ parseFloat(site_settings[id]).v >= 0

\* C21: a load that sets the configuration leaves in each field the number parsed
\* from the text stored under its key, whenever that number is >= 0, 0 included.
C21_LoadedEqualsStored ==
  [][ deliverySettings' # deliverySettings =>
        /\ ParsesToNonNegative("delivery_base_fee") =>
             deliverySettings'.baseFee = parseFloat(site_settings["delivery_base_fee"]).v
        /\ ParsesToNonNegative("delivery_per_km_fee") =>
             deliverySettings'.perKmFee = parseFloat(site_settings["delivery_per_km_fee"]).v
        /\ ParsesToNonNegative("delivery_base_distance") =>
             deliverySettings'.baseDistance =
               parseFloat(site_settings["delivery_base_distance"]).v ]_vars

\* C22: normalising an already normalised address gives the same address.
C22_NormalizeIdempotent == normCall.called => normCall.twice = normCall.once

\* an address with blanks around it, a misspelling and an abbreviation, which
\* normalisation changes
C22_Witness ==
  /\ normCall.called
  /\ normCall.address = <<" ", "pangpaga", "av">>
  /\ normCall.once = <<"Pampanga", "Avenue">>
  /\ normCall.twice = <<"Pampanga", "Avenue">>

\* C23: when the computation for the entered address ended without a distance
\* because the area check reported an error or calculateDistance returned null,
\* the fee on display is the base fee of the hook's configuration.
C23_BaseFeeWhenDistanceUnknown ==
  ( /\ Trim(checkout.address) # <<>>
    /\ checkout.areaFor = checkout.address
    /\ checkout.distanceFor = checkout.address
    /\ checkout.distance = Null
    /\ (checkout.isWithinArea = "true" \/ checkout.areaCheckError # "null") )
  => checkout.deliveryFee = Num(deliverySettings.baseFee)

\* C24: every computation that was started sent, for each address field, a text
\* whose debounce window had elapsed: no timeout of a field was pending for the
\* text taken from it.
C24_OnlyDebouncedTextIsSent ==
  booking.sent.started => (~booking.sent.pickupPending /\ ~booking.sent.deliveryPending)

\* C27: the fee recorded in a submitted booking or a placed order was computed
\* for the addresses recorded in the same submission.
C27_SubmissionPairsFeeWithItsAddress ==
  /\ booking.submitted.done =>
       booking.submitted.feeFor =
         <<booking.submitted.pickup_address, booking.submitted.delivery_address>>
  /\ order.placed => order.distanceFor = order.address

\* C25: the coordinate of the hub is constant for the life of the process: every
\* area check that takes the hub as its reference point measures from the
\* configured coordinate, so two checks of one destination use the same point.
C25_HubCoordinateConstant ==
  (call.fn = "isWithinDeliveryArea" /\ call.stage # "idle")
    => call.startCoords = DELIVERY_CENTER

\* C26: a reload replaces the settings wholesale: after a successful load every
\* field of the manager's settings is the store's current value for its key, or
\* the hardcoded default when the key is absent.
C26_ReloadReplacesWholesale ==
  [][FetchSettings("ok") =>
       \A s \in Services : \A i \in 1..3 :
         manager'.settings[s][Fields[i]] =
           IF site_settings[SettingId(s, i)] = "absent"
             THEN ManagerDefaults[s][Fields[i]]
             ELSE parseFloat(site_settings[SettingId(s, i)])]_vars

\* C28: saving a service line is all-or-nothing: when handleSave ended with
\* 'Failed to save settings', none of the three rows of that service line differs
\* from what it was when the save began.
C28_FailedSaveChangesNothing ==
  manager.message = "Failed to save settings"
    => \A i \in 1..3 : site_settings[SettingId(manager.saved, i)] = manager.before[i]

\* C29: updateMenuItem changes only what updates supplies: during and after a call
\* whose updates hold no variations the item's variations in the store are the ones
\* it had before the call, and likewise for the add-ons.
C29_UnsuppliedRowsUntouched ==
  menu.stage # "idle" =>
    /\ menu.updates.variations.k = "undefined" => menu.variations = menu.before.variations
    /\ menu.updates.addOns.k = "undefined" => menu.addOns = menu.before.addOns

\* C30: the device has at most one rating of the restaurant in the store, under
\* every interleaving of its submitRating calls and whichever identifier
\* getUserIP returned; and no stored rating is outside 1..5.
C30_OneRatingPerDevice ==
  /\ Len(ratings.rows) <= 1
  /\ \A k \in 1..Len(ratings.rows) : ratings.rows[k].rating \in 1..5

=============================================================================
